---------------------------- MODULE Spec2Model ----------------------------
(***************************************************************************)
(* Model of the calculator engines of the repository:                      *)
(*   - Quiz04/calculator.py             class Calculator (basic engine)    *)
(*   - Quiz06/engineering_calculator.py class Calculator and               *)
(*                                      class EngineeringCalculator        *)
(*                                                                         *)
(* Texts (self.current, the text handed to update_display) are sequences   *)
(* of one-character strings.  Python floats are modelled as decimal        *)
(* floating-point numbers with FloatDigits significant digits, a largest   *)
(* decimal exponent MaxExp10, round-half-even, overflow to infinity and    *)
(* underflow to zero; the 12 significant digits of the "%.12g" format are  *)
(* scaled to FmtDigits, with FmtDigits < FloatDigits as 12 < 17.           *)
(***************************************************************************)
EXTENDS Integers, Sequences, FiniteSets, TLC

(* ------------------------------ bounds --------------------------------- *)

\* significant digits of the result format (the 12 of f"{val:.12g}", scaled)
FmtDigits == 3

\* largest decimal exponent of a finite float (the 308 of a double, scaled)
MaxExp10 == 2

\* buttons pressed in a run of the scientific calculator
MaxKeys == 4

\* buttons pressed in a run restricted to the basic keys
MaxBasicKeys == 5

\* buttons pressed in a run restricted to digits, operators and "="
MaxChainKeys == 6

\* buttons pressed in a run restricted to number entry, sign and "="
MaxEntryKeys == 6

\* buttons pressed in a run that includes the placeholder keys
MaxPanelKeys == 4

\* chunks the audio callback delivers in a run of the recorder
MaxChunks == 5

\* images in the viewer's list, and key events sent to the viewer
MaxImages == 4

MaxViewerKeys == 5

\* significant decimal digits a float carries (17 for a double, scaled)
FloatDigits == FmtDigits + 1

\* smallest decimal exponent of a non-zero float (-324 for a double, whose
\* subnormals reach 16 digits below 10^-308); below it a result is zero
MinExp10 == 1 - MaxExp10 - FloatDigits

(* ------------------------- float arithmetic ---------------------------- *)

RECURSIVE Pow10(_)
Pow10(n) == IF n <= 0 THEN 1 ELSE 10 * Pow10(n - 1)

RECURSIVE NumDigits(_)
NumDigits(m) == IF m < 10 THEN 1 ELSE 1 + NumDigits(m \div 10)

RECURSIVE StripZeros(_, _)
StripZeros(m, e) ==
    IF m = 0 THEN <<0, 0>>
    ELSE IF m % 10 = 0 THEN StripZeros(m \div 10, e + 1)
    ELSE <<m, e>>

\* a finite float  s * m * 10^e  (s is the sign, kept for zero as well)
Fin(s, m, e) ==
    LET n == StripZeros(m, e)
    IN  [k |-> "fin", s |-> s, m |-> n[1], e |-> n[2]]

Inf(s) == [k |-> "inf", s |-> s, m |-> 0, e |-> 0]

NaN == [k |-> "nan", s |-> 1, m |-> 0, e |-> 0]

Zero == Fin(1, 0, 0)

IsZero(x) == x.k = "fin" /\ x.m = 0

\* math.isfinite
IsFinite(x) == x.k = "fin"

\* s * (m + f) * 10^e,  0 < f < 1 iff sticky,  rounded to n significant
\* digits, ties to the even mantissa: the pair <<mantissa, exponent>>
RoundSig(m, e, sticky, n) ==
    LET k  == NumDigits(m) - n
        q  == IF k <= 0 THEN m ELSE m \div Pow10(k)
        r  == IF k <= 0 THEN 0 ELSE m % Pow10(k)
        h  == IF k <= 0 THEN 1 ELSE 5 * Pow10(k - 1)
        up == k > 0 /\ (r > h \/ (r = h /\ (sticky \/ q % 2 = 1)))
    IN  <<IF up THEN q + 1 ELSE q, IF k <= 0 THEN e ELSE e + k>>

\* the float nearest to  s * (m + f) * 10^e:  overflow gives infinity,
\* underflow gives zero
RoundFloat(s, m, e, sticky) ==
    IF m = 0 THEN Fin(s, 0, 0)
    ELSE
      LET qe == RoundSig(m, e, sticky, FloatDigits)
          x  == qe[2] + NumDigits(qe[1]) - 1
      IN  IF x > MaxExp10 THEN Inf(s)
          ELSE IF x < MinExp10 THEN Fin(s, 0, 0)
          ELSE Fin(s, qe[1], qe[2])

\* mantissa and exponent widened to exactly FloatDigits digits (m # 0)
Widen(x) ==
    LET k == FloatDigits - NumDigits(x.m)
    IN  <<x.m * Pow10(k), x.e - k>>

Neg(x) == IF x.k = "nan" THEN x ELSE [x EXCEPT !.s = 0 - x.s]

GuardDigits == FloatDigits - 1

\* a + b for finite non-zero a, b whose widened exponents satisfy ea >= eb
AddOrdered(a, b) ==
    LET wa == Widen(a)
        wb == Widen(b)
        d  == wa[2] - wb[2]
        G  == GuardDigits
        A  == wa[1] * Pow10(G)
        k  == d - G
        B  == IF k <= 0 THEN wb[1] * Pow10(G - d)
              ELSE IF k > FloatDigits THEN 0
              ELSE wb[1] \div Pow10(k)
        st == k > 0 /\ (k > FloatDigits \/ wb[1] % Pow10(k) # 0)
        e  == wa[2] - G
    IN  IF a.s = b.s THEN RoundFloat(a.s, A + B, e, st)
        ELSE IF A = B THEN Zero
        ELSE IF A > B
             THEN RoundFloat(a.s, A - B - (IF st THEN 1 ELSE 0), e, st)
             ELSE RoundFloat(b.s, B - A, e, FALSE)

\* Python float  a + b
FAdd(a, b) ==
    IF a.k = "nan" \/ b.k = "nan" THEN NaN
    ELSE IF a.k = "inf" /\ b.k = "inf"
         THEN (IF a.s = b.s THEN a ELSE NaN)
    ELSE IF a.k = "inf" THEN a
    ELSE IF b.k = "inf" THEN b
    ELSE IF IsZero(a) /\ IsZero(b)
         THEN (IF a.s = -1 /\ b.s = -1 THEN Fin(-1, 0, 0) ELSE Zero)
    ELSE IF IsZero(a) THEN b
    ELSE IF IsZero(b) THEN a
    ELSE IF Widen(a)[2] >= Widen(b)[2] THEN AddOrdered(a, b)
    ELSE AddOrdered(b, a)

\* Python float  a - b
FSub(a, b) == FAdd(a, Neg(b))

\* Python float  a * b
FMul(a, b) ==
    IF a.k = "nan" \/ b.k = "nan" THEN NaN
    ELSE IF a.k = "inf" \/ b.k = "inf"
         THEN (IF IsZero(a) \/ IsZero(b) THEN NaN ELSE Inf(a.s * b.s))
    ELSE IF IsZero(a) \/ IsZero(b) THEN Fin(a.s * b.s, 0, 0)
    ELSE IF a.m <= Pow10(9) \div b.m
         THEN RoundFloat(a.s * b.s, a.m * b.m, a.e + b.e, FALSE)
    ELSE LET hi == b.m \div 1000
             lo == b.m % 1000
             t  == a.m * lo
         IN  RoundFloat(a.s * b.s, a.m * hi + t \div 1000,
                        a.e + b.e + 3, t % 1000 # 0)

\* long division: n more quotient digits of (r / d) appended to q
RECURSIVE LongDiv(_, _, _, _)
LongDiv(q, r, d, n) ==
    IF n = 0 THEN <<q, r>>
    ELSE LongDiv(q * 10 + (r * 10) \div d, (r * 10) % d, d, n - 1)

\* Python float  a / b  for b # 0 (the callers test b == 0.0 first)
FDiv(a, b) ==
    IF a.k = "nan" \/ b.k = "nan" THEN NaN
    ELSE IF a.k = "inf"
         THEN (IF b.k = "inf" THEN NaN ELSE Inf(a.s * b.s))
    ELSE IF b.k = "inf" THEN Fin(a.s * b.s, 0, 0)
    ELSE IF IsZero(a) THEN Fin(a.s * b.s, 0, 0)
    ELSE LET wa == Widen(a)
             wb == Widen(b)
             n  == FloatDigits + 1
             qr == LongDiv(wa[1] \div wb[1], wa[1] % wb[1], wb[1], n)
         IN  RoundFloat(a.s * b.s, qr[1], wa[2] - wb[2] - n, qr[2] # 0)

(* ------------------------------- texts --------------------------------- *)

DigitChars == <<"0", "1", "2", "3", "4", "5", "6", "7", "8", "9">>

IsDigit(c) == \E i \in 1..10 : DigitChars[i] = c

DigitVal(c) == (CHOOSE i \in 1..10 : DigitChars[i] = c) - 1

\* the text "Error"
ErrorText == <<"E", "r", "r", "o", "r">>

InfText == <<"i", "n", "f">>

NanText == <<"n", "a", "n">>

\* the decimal digits of the natural number m, most significant first
RECURSIVE DigitsOf(_)
DigitsOf(m) ==
    IF m < 10 THEN <<DigitChars[m + 1]>>
    ELSE Append(DigitsOf(m \div 10), DigitChars[(m % 10) + 1])

Zeros(n) == [i \in 1..n |-> "0"]

\* first index j >= i of t that is not a digit (Len(t) + 1 if none)
RECURSIVE SpanDigits(_, _)
SpanDigits(t, i) ==
    IF i <= Len(t) /\ IsDigit(t[i]) THEN SpanDigits(t, i + 1) ELSE i

\* the digits t[i..j-1] read as a mantissa kept to FloatDigits + 2 digits:
\* acc = <<mantissa, number of digits dropped, some dropped digit non-zero>>
RECURSIVE ReadDigits(_, _, _, _)
ReadDigits(t, i, j, acc) ==
    IF i >= j THEN acc
    ELSE LET d == DigitVal(t[i])
         IN  IF acc[1] < Pow10(FloatDigits + 1)
             THEN ReadDigits(t, i + 1, j, <<acc[1] * 10 + d, acc[2], acc[3]>>)
             ELSE ReadDigits(t, i + 1, j, <<acc[1], acc[2] + 1, acc[3] \/ d # 0>>)

\* the digits t[i..j-1] read as an exponent, saturated
RECURSIVE ReadExp(_, _, _, _)
ReadExp(t, i, j, acc) ==
    IF i >= j THEN acc
    ELSE ReadExp(t, i + 1, j,
                 IF acc >= Pow10(4) THEN acc ELSE acc * 10 + DigitVal(t[i]))

\* float(t) for t without its sign: [ok |-> parsed, val |-> the float]
ParseUnsigned(t, s) ==
    LET bad  == [ok |-> FALSE, val |-> Zero]
        n    == Len(t)
        i1   == SpanDigits(t, 1)
        dot  == i1 <= n /\ t[i1] = "."
        f0   == IF dot THEN i1 + 1 ELSE i1
        f1   == IF dot THEN SpanDigits(t, f0) ELSE i1
        nint == i1 - 1
        nfr  == f1 - f0
        hasE == f1 <= n /\ t[f1] \in {"e", "E"}
        sg   == hasE /\ f1 + 1 <= n /\ t[f1 + 1] \in {"+", "-"}
        x0   == IF sg THEN f1 + 2 ELSE f1 + 1
        x1   == IF hasE THEN SpanDigits(t, x0) ELSE f1
        ip   == ReadDigits(t, 1, i1, <<0, 0, FALSE>>)
        fp   == ReadDigits(t, f0, f1, ip)
        ex   == IF hasE THEN ReadExp(t, x0, x1, 0) ELSE 0
        sx   == IF sg /\ t[f1 + 1] = "-" THEN 0 - ex ELSE ex
    IN  IF t = InfText THEN [ok |-> TRUE, val |-> Inf(s)]
        ELSE IF t = NanText THEN [ok |-> TRUE, val |-> NaN]
        ELSE IF nint + nfr = 0 THEN bad
        ELSE IF hasE /\ x1 = x0 THEN bad
        ELSE IF x1 # n + 1 THEN bad
        ELSE [ok |-> TRUE,
              val |-> RoundFloat(s, fp[1], sx - nfr + fp[2], fp[3])]

\* float(t): a parsed float, or ok = FALSE where Python raises ValueError
ParseFloat(t) ==
    IF t = <<>> THEN [ok |-> FALSE, val |-> Zero]
    ELSE IF t[1] = "-" THEN ParseUnsigned(Tail(t), -1)
    ELSE IF t[1] = "+" THEN ParseUnsigned(Tail(t), 1)
    ELSE ParseUnsigned(t, 1)

\* the exponent field of the "g" format: sign and at least two digits
ExpField(x) ==
    LET a == IF x < 0 THEN 0 - x ELSE x
    IN  <<"e", IF x < 0 THEN "-" ELSE "+">>
        \o (IF a < 10 THEN <<"0">> ELSE <<>>) \o DigitsOf(a)

\* f"{val:.Ng}" with N = n, for any float val
FormatG(val, n) ==
    IF val.k = "nan" THEN NanText
    ELSE IF val.k = "inf"
         THEN (IF val.s < 0 THEN <<"-">> ELSE <<>>) \o InfText
    ELSE
      LET sgn == IF val.s < 0 THEN <<"-">> ELSE <<>>
          qe  == RoundSig(val.m, val.e, FALSE, n)
          me  == StripZeros(qe[1], qe[2])
          D   == DigitsOf(me[1])
          nd  == Len(D)
          x   == me[2] + nd - 1
      IN  IF val.m = 0 THEN sgn \o <<"0">>
          ELSE IF x < -4 \/ x >= n
               THEN sgn \o <<D[1]>>
                    \o (IF nd > 1 THEN <<".">> \o SubSeq(D, 2, nd) ELSE <<>>)
                    \o ExpField(x)
          ELSE IF x < 0
               THEN sgn \o <<"0", ".">> \o Zeros(0 - x - 1) \o D
          ELSE IF nd <= x + 1
               THEN sgn \o D \o Zeros(x + 1 - nd)
          ELSE sgn \o SubSeq(D, 1, x + 1) \o <<".">> \o SubSeq(D, x + 2, nd)


(* ------------------------------- state --------------------------------- *)

VARIABLES
    cls,             \* class of the engine object: "Calculator" (Quiz04) or
                     \* "EngineeringCalculator" (Quiz06)
    acc,             \* self.acc
    current,         \* self.current
    pending_op,      \* self.pending_op: "none", "+", "-", "*", "/"
    just_evaluated,  \* self.just_evaluated
    is_degree_mode,  \* self.is_degree_mode
    display,         \* text of the display widget (last update_display)
    raised,          \* exception the last action raised to its caller
    label,           \* label of the last button handed to on_button
    previous,        \* history: self.current before the last button
    trail,           \* history: <<operand, key>> of the folds of the chain
    nkeys,           \* number of buttons pressed
    viewer,          \* the CCTVViewer window of Quiz09: images, idx, what the
                     \* label shows, and the last key event
    recorder         \* record_to_file of Quiz07/Quiz08: its locals, the queue
                     \* and the file

vars == <<cls, acc, current, pending_op, just_evaluated, is_degree_mode,
          display, raised, label, previous, trail, nkeys, viewer, recorder>>

\* the engine object
Self ==
    [cls |-> cls, acc |-> acc, current |-> current,
     pending_op |-> pending_op, just_evaluated |-> just_evaluated,
     is_degree_mode |-> is_degree_mode, display |-> display,
     raised |-> raised]

OpLabels == {"+", "-", "*", "/"}

(* --------------------------- basic engine ------------------------------ *)

\* f(v), with v evaluated once: a local variable of a method
Bind(v, f(_)) == CHOOSE r \in {f(x) : x \in {v}} : TRUE

\* self.update_display(self.current)
update_display(c) == [c EXCEPT !.display = c.current]

\* variant: Clear keeps the pending operator
reset_keeping_pending(c) ==
    update_display([c EXCEPT !.acc = Zero, !.current = <<"0">>,
                             !.just_evaluated = FALSE])

\* variant: Clear also sets the angle mode back to degrees
reset_to_degrees(c) ==
    update_display([c EXCEPT !.acc = Zero, !.current = <<"0">>,
                             !.pending_op = "none",
                             !.just_evaluated = FALSE,
                             !.is_degree_mode = TRUE])

reset(c) ==
    update_display([c EXCEPT !.acc = Zero, !.current = <<"0">>,
                             !.pending_op = "none",
                             !.just_evaluated = FALSE])

\* variant: a text that does not parse is read as 1
current_value_one(c) ==
    Bind(ParseFloat(c.current), LAMBDA p : IF p.ok THEN p.val ELSE Fin(1, 1, 0))

current_value(c) ==
    Bind(ParseFloat(c.current), LAMBDA p : IF p.ok THEN p.val ELSE Zero)

\* Quiz06: a result that is not finite is rendered as "Error"
set_current_from_value(c, val) ==
    Bind(IF IsFinite(val) THEN FormatG(val, FmtDigits) ELSE ErrorText,
         LAMBDA text : update_display([c EXCEPT !.current = text]))

\* Quiz04: every float is formatted, "inf" and "nan" included
Quiz04_set_current_from_value(c, val) ==
    Bind(FormatG(val, FmtDigits),
         LAMBDA text : update_display([c EXCEPT !.current = text]))

\* self._set_current_from_value(val), resolved by the class of self
SetCurrent(c, val) ==
    IF c.cls = "Calculator" THEN Quiz04_set_current_from_value(c, val)
    ELSE set_current_from_value(c, val)

\* the "start a new entry after equals" prologue of input_digit, input_dot
StartFresh(c) ==
    IF c.just_evaluated /\ c.pending_op = "none"
    THEN [c EXCEPT !.current = <<"0">>, !.just_evaluated = FALSE]
    ELSE c

input_digit(c, d) ==
    Bind(StartFresh(c), LAMBDA c1 :
        update_display([c1 EXCEPT !.current =
                           IF c1.current = <<"0">> THEN <<d>>
                           ELSE Append(c1.current, d)]))

HasDot(t) == \E i \in 1..Len(t) : t[i] = "."

\* variant: the point is appended without looking for one in the text
input_dot_unguarded(c) ==
    Bind(StartFresh(c), LAMBDA c1 :
        update_display([c1 EXCEPT !.current =
                            IF c1.current # <<>>
                            THEN Append(c1.current, ".")
                            ELSE <<"0", ".">>]))

input_dot(c) ==
    Bind(StartFresh(c), LAMBDA c1 :
        IF ~HasDot(c1.current)
        THEN update_display([c1 EXCEPT !.current =
                                IF c1.current # <<>>
                                THEN Append(c1.current, ".")
                                ELSE <<"0", ".">>])
        ELSE c1)

\* variant: the sign is toggled on "0" as on any other text
negative_positive_on_zero(c) ==
    update_display([c EXCEPT !.current =
        IF c.current # <<>> /\ c.current[1] = "-"
        THEN (IF Tail(c.current) # <<>> THEN Tail(c.current) ELSE <<"0">>)
        ELSE <<"-">> \o c.current])

\* variant: the new text is not handed to update_display
negative_positive_silent(c) ==
    [c EXCEPT !.current =
        IF c.current # <<>> /\ c.current[1] = "-"
        THEN (IF Tail(c.current) # <<>> THEN Tail(c.current) ELSE <<"0">>)
        ELSE IF c.current # <<"0">> THEN <<"-">> \o c.current
        ELSE c.current]

negative_positive(c) ==
    update_display([c EXCEPT !.current =
        IF c.current # <<>> /\ c.current[1] = "-"
        THEN (IF Tail(c.current) # <<>> THEN Tail(c.current) ELSE <<"0">>)
        ELSE IF c.current # <<"0">> THEN <<"-">> \o c.current
        ELSE c.current])

Hundred == Fin(1, 100, 0)

\* variant: the percentage is never taken of the accumulator
percent_plain(c) ==
    Bind(current_value(c), LAMBDA cur :
        Bind(FDiv(cur, Hundred), LAMBDA res : SetCurrent(c, res)))

\* variant: percent marks its result as an evaluated one
percent_marking_result(c) ==
    Bind(current_value(c), LAMBDA cur :
        Bind(FDiv(cur, Hundred), LAMBDA q :
            Bind(IF c.pending_op # "none" THEN FMul(c.acc, q) ELSE q,
                 LAMBDA res :
                    [SetCurrent(c, res) EXCEPT !.just_evaluated = TRUE])))

percent(c) ==
    Bind(current_value(c), LAMBDA cur :
        Bind(FDiv(cur, Hundred), LAMBDA q :
            Bind(IF c.pending_op # "none" THEN FMul(c.acc, q) ELSE q,
                 LAMBDA res : SetCurrent(c, res))))

\* variant: a division by zero leaves the accumulator as it was
apply_pending_keeping_acc(c) ==
    IF c.pending_op = "none" THEN <<c, "None">>
    ELSE Bind(current_value(c), LAMBDA b :
        IF c.pending_op = "/" /\ IsZero(b)
        THEN <<update_display([c EXCEPT !.current = ErrorText,
                                        !.pending_op = "none",
                                        !.just_evaluated = TRUE]),
               "error">>
        ELSE Bind(CASE c.pending_op = "+" -> FAdd(c.acc, b)
                    [] c.pending_op = "-" -> FSub(c.acc, b)
                    [] c.pending_op = "*" -> FMul(c.acc, b)
                    [] OTHER -> FDiv(c.acc, b),
                  LAMBDA res :
                      <<SetCurrent([c EXCEPT !.acc = res], res), "None">>))

\* the pair <<engine after the call, returned status>>
apply_pending(c) ==
    IF c.pending_op = "none" THEN <<c, "None">>
    ELSE Bind(current_value(c), LAMBDA b :
        IF c.pending_op = "/" /\ IsZero(b)
        THEN <<update_display([c EXCEPT !.current = ErrorText,
                                        !.acc = Zero,
                                        !.pending_op = "none",
                                        !.just_evaluated = TRUE]),
               "error">>
        ELSE Bind(CASE c.pending_op = "+" -> FAdd(c.acc, b)
                    [] c.pending_op = "-" -> FSub(c.acc, b)
                    [] c.pending_op = "*" -> FMul(c.acc, b)
                    [] OTHER -> FDiv(c.acc, b),
                  LAMBDA res :
                      <<SetCurrent([c EXCEPT !.acc = res], res), "None">>))

\* variant: a chained operator replaces the pending one without folding
press_operator_replacing(c, op_symbol) ==
    IF c.current = ErrorText THEN reset(c)
    ELSE IF c.pending_op = "none"
    THEN [c EXCEPT !.acc = current_value(c), !.pending_op = op_symbol,
                   !.just_evaluated = FALSE, !.current = <<"0">>]
    ELSE [c EXCEPT !.pending_op = op_symbol]

\* variant: the new operator is recorded whatever the fold returned
press_operator_ignoring_status(c, op_symbol) ==
    IF c.current = ErrorText THEN reset(c)
    ELSE IF c.pending_op = "none"
    THEN [c EXCEPT !.acc = current_value(c), !.pending_op = op_symbol,
                   !.just_evaluated = FALSE, !.current = <<"0">>]
    ELSE Bind(apply_pending(c), LAMBDA r :
             [r[1] EXCEPT !.pending_op = op_symbol,
                          !.current = <<"0">>,
                          !.just_evaluated = FALSE])

\* variant: an operator pressed on the error marker does nothing
press_operator_stuck(c, op_symbol) ==
    IF c.current = ErrorText THEN c
    ELSE IF c.pending_op = "none"
    THEN [c EXCEPT !.acc = current_value(c), !.pending_op = op_symbol,
                   !.just_evaluated = FALSE, !.current = <<"0">>]
    ELSE Bind(apply_pending(c), LAMBDA r :
             IF r[2] = "error" THEN r[1]
             ELSE [r[1] EXCEPT !.pending_op = op_symbol,
                               !.current = <<"0">>,
                               !.just_evaluated = FALSE])

\* variant: the text is not reset after the operator is recorded
press_operator_keeping_text(c, op_symbol) ==
    IF c.current = ErrorText THEN reset(c)
    ELSE IF c.pending_op = "none"
    THEN [c EXCEPT !.acc = current_value(c), !.pending_op = op_symbol,
                   !.just_evaluated = FALSE]
    ELSE Bind(apply_pending(c), LAMBDA r :
             IF r[2] = "error" THEN r[1]
             ELSE [r[1] EXCEPT !.pending_op = op_symbol,
                               !.just_evaluated = FALSE])

\* variant: the operator key leaves just_evaluated as it is
press_operator_keeping_flag(c, op_symbol) ==
    IF c.current = ErrorText THEN reset(c)
    ELSE IF c.pending_op = "none"
    THEN [c EXCEPT !.acc = current_value(c), !.pending_op = op_symbol,
                   !.current = <<"0">>]
    ELSE Bind(apply_pending(c), LAMBDA r :
             IF r[2] = "error" THEN r[1]
             ELSE [r[1] EXCEPT !.pending_op = op_symbol,
                               !.current = <<"0">>])

\* variant: an operator pressed on the text "0" replaces the pending one
press_operator_skipping_zero(c, op_symbol) ==
    IF c.current = ErrorText THEN reset(c)
    ELSE IF c.pending_op = "none"
    THEN [c EXCEPT !.acc = current_value(c), !.pending_op = op_symbol,
                   !.just_evaluated = FALSE, !.current = <<"0">>]
    ELSE IF c.current = <<"0">>
    THEN [c EXCEPT !.pending_op = op_symbol, !.just_evaluated = FALSE]
    ELSE Bind(apply_pending(c), LAMBDA r :
             IF r[2] = "error" THEN r[1]
             ELSE [r[1] EXCEPT !.pending_op = op_symbol,
                               !.current = <<"0">>,
                               !.just_evaluated = FALSE])

\* variant: the reset text is sent to the display
press_operator_notifying(c, op_symbol) ==
    IF c.current = ErrorText THEN reset(c)
    ELSE IF c.pending_op = "none"
    THEN update_display([c EXCEPT !.acc = current_value(c),
                                  !.pending_op = op_symbol,
                                  !.just_evaluated = FALSE,
                                  !.current = <<"0">>])
    ELSE Bind(apply_pending(c), LAMBDA r :
             IF r[2] = "error" THEN r[1]
             ELSE update_display([r[1] EXCEPT !.pending_op = op_symbol,
                                              !.current = <<"0">>,
                                              !.just_evaluated = FALSE]))

press_operator(c, op_symbol) ==
    IF c.current = ErrorText THEN reset(c)
    ELSE IF c.pending_op = "none"
    THEN [c EXCEPT !.acc = current_value(c), !.pending_op = op_symbol,
                   !.just_evaluated = FALSE, !.current = <<"0">>]
    ELSE Bind(apply_pending(c), LAMBDA r :
             IF r[2] = "error" THEN r[1]
             ELSE [r[1] EXCEPT !.pending_op = op_symbol,
                               !.current = <<"0">>,
                               !.just_evaluated = FALSE])

\* variant: "=" does not look for the error marker
equal_ignoring_error(c) ==
    IF c.pending_op = "none"
    THEN Bind(current_value(c), LAMBDA v :
             [SetCurrent(c, v) EXCEPT !.just_evaluated = TRUE])
    ELSE Bind(apply_pending(c), LAMBDA r :
             IF r[2] = "error" THEN r[1]
             ELSE [r[1] EXCEPT !.pending_op = "none",
                               !.just_evaluated = TRUE])

\* variant: "=" leaves the operator pending after the fold
equal_keeping_pending(c) ==
    IF c.current = ErrorText THEN reset(c)
    ELSE IF c.pending_op = "none"
    THEN Bind(current_value(c), LAMBDA v :
             [SetCurrent(c, v) EXCEPT !.just_evaluated = TRUE])
    ELSE Bind(apply_pending(c), LAMBDA r :
             IF r[2] = "error" THEN r[1]
             ELSE [r[1] EXCEPT !.just_evaluated = TRUE])

equal(c) ==
    IF c.current = ErrorText THEN reset(c)
    ELSE IF c.pending_op = "none"
    THEN Bind(current_value(c), LAMBDA v :
             [SetCurrent(c, v) EXCEPT !.just_evaluated = TRUE])
    ELSE Bind(apply_pending(c), LAMBDA r :
             IF r[2] = "error" THEN r[1]
             ELSE [r[1] EXCEPT !.pending_op = "none",
                               !.just_evaluated = TRUE])


(* ------------------------- the math library ---------------------------- *)
(* math.sin, math.cos, math.tan, math.sinh, math.cosh, math.tanh and        *)
(* math.radians, evaluated in fixed point with four decimals (AngleScale)   *)
(* and rounded to a float.  A call yields [exc, val]: exc is the exception  *)
(* the library raises ("none" if it returns) and val the returned float.    *)

\* fixed-point unit of the angles: 10^-4 rad
AngleScale == Pow10(4)

\* pi/2, pi and 2 pi in units of 10^-4
HalfPi == 15708

OnePi == 31416

TwoPi == 62832

\* a / b rounded to the nearest integer, a >= 0, b > 0
RDiv(a, b) == (2 * a + b) \div (2 * b)

\* (r * 10^n) mod TwoPi
RECURSIVE ShiftMod(_, _)
ShiftMod(r, n) == IF n <= 0 THEN r ELSE ShiftMod((r * 10) % TwoPi, n - 1)

\* |x| in units of 10^-4, for a finite x
FixOf(x) ==
    IF x.e >= -4 THEN x.m * Pow10(x.e + 4) ELSE RDiv(x.m, Pow10(-4 - x.e))

\* |x| mod 2 pi in units of 10^-4, for a finite x
AngleOf(x) ==
    IF x.e >= -4 THEN ShiftMod(x.m % TwoPi, x.e + 4)
    ELSE RDiv(x.m, Pow10(-4 - x.e)) % TwoPi

\* sum of the series  t - t X^2/(n+1)(n+2) + ...  (sign = -1: sine) or
\* t + t X^2/(n+1)(n+2) + ...  (sign = 1: hyperbolic sine), in 10^-4
RECURSIVE Series(_, _, _, _)
Series(t, x2, n, sign) ==
    IF t = 0 \/ n > 20 THEN 0
    ELSE t + sign * Series(RDiv(t * x2, AngleScale * (n + 1) * (n + 2)),
                           x2, n + 2, sign)

\* sin of X * 10^-4 in units of 10^-4, for 0 <= X < TwoPi
SinFix(X) ==
    LET Y  == IF X >= OnePi THEN X - OnePi ELSE X
        Z  == IF Y > HalfPi THEN OnePi - Y ELSE Y
        v  == Series(Z, RDiv(Z * Z, AngleScale), 1, -1)
    IN  IF X >= OnePi THEN 0 - v ELSE v

CosFix(X) == SinFix((X + HalfPi) % TwoPi)

FloatOfFix(v) ==
    IF v < 0 THEN RoundFloat(-1, 0 - v, -4, FALSE)
    ELSE RoundFloat(1, v, -4, FALSE)

\* |x| < 0.01: sin x, tan x, sinh x, tanh x are x and cos x, cosh x are 1
\* to the precision of the model
IsSmall(x) == x.k = "fin" /\ (x.m = 0 \/ x.e + NumDigits(x.m) - 1 < -2)

One == Fin(1, 1, 0)

Returns(v) == [exc |-> "none", val |-> v]

Raises(e) == [exc |-> e, val |-> NaN]

WithSign(s, v) == IF s < 0 THEN Neg(v) ELSE v

MathSin(x) ==
    IF x.k = "nan" THEN Returns(NaN)
    ELSE IF x.k = "inf" THEN Raises("ValueError")
    ELSE IF IsSmall(x) THEN Returns(x)
    ELSE Bind(FloatOfFix(SinFix(AngleOf(x))),
              LAMBDA v : Returns(WithSign(x.s, v)))

MathCos(x) ==
    IF x.k = "nan" THEN Returns(NaN)
    ELSE IF x.k = "inf" THEN Raises("ValueError")
    ELSE IF IsSmall(x) THEN Returns(One)
    ELSE Returns(FloatOfFix(CosFix(AngleOf(x))))

\* sin / cos of the fixed-point sine sn and cosine cs, of sign s
TanOf(s, sn, cs) ==
    LET d  == IF cs = 0 THEN 1 ELSE IF cs < 0 THEN 0 - cs ELSE cs
        n  == IF sn < 0 THEN 0 - sn ELSE sn
        sg == (IF sn < 0 THEN -1 ELSE 1) * (IF cs < 0 THEN -1 ELSE 1)
    IN  Bind(FloatOfFix(RDiv(n * AngleScale, d)),
             LAMBDA v : WithSign(s * sg, v))

MathTan(x) ==
    IF x.k = "nan" THEN Returns(NaN)
    ELSE IF x.k = "inf" THEN Raises("ValueError")
    ELSE IF IsSmall(x) THEN Returns(x)
    ELSE Bind(AngleOf(x), LAMBDA X :
             Bind(SinFix(X), LAMBDA sn :
                 Bind(CosFix(X), LAMBDA cs : Returns(TanOf(x.s, sn, cs)))))

\* e^n for n = 0..20 as <<mantissa, exponent>>
ExpTable ==
    << <<100000000, -8>>, <<271828183, -8>>, <<738905610, -8>>,
       <<200855369, -7>>, <<545981500, -7>>, <<148413159, -6>>,
       <<403428793, -6>>, <<109663316, -5>>, <<298095799, -5>>,
       <<810308393, -5>>, <<220264658, -4>>, <<598741417, -4>>,
       <<162754791, -3>>, <<442413392, -3>>, <<120260428, -2>>,
       <<326901737, -2>>, <<888611052, -2>>, <<241549528, -1>>,
       <<656599691, -1>>, <<178482301, 0>>, <<485165195, 0>> >>

\* beyond this argument e^x exceeds every float of the model
ExpLimit == 20

\* sum of the series  t + t F/(k+1) + ...  in units of 10^-4
RECURSIVE ExpSeries(_, _, _)
ExpSeries(t, F, k) ==
    IF t = 0 \/ k > 20 THEN 0
    ELSE t + ExpSeries(RDiv(t * F, AngleScale * (k + 1)), F, k + 1)

\* e^|x| for a finite x with |x| < ExpLimit
ExpAbs(x) ==
    Bind(FixOf(x), LAMBDA X :
        Bind(ExpTable[(X \div AngleScale) + 1], LAMBDA en :
            Bind(RoundFloat(1, en[1], en[2], TRUE), LAMBDA whole :
                Bind(FloatOfFix(ExpSeries(AngleScale, X % AngleScale, 0)),
                     LAMBDA frac : FMul(whole, frac)))))

Two == Fin(1, 2, 0)

\* 1 / ex
Recip(ex) == FDiv(One, ex)

\* sinh |x| and cosh |x| for a finite x that is not small
SinhAbs(x) ==
    Bind(FixOf(x), LAMBDA X :
        IF X < AngleScale
        THEN FloatOfFix(Series(X, RDiv(X * X, AngleScale), 1, 1))
        ELSE Bind(ExpAbs(x), LAMBDA ex :
                 Bind(Recip(ex), LAMBDA rx :
                     Bind(FSub(ex, rx), LAMBDA d : FDiv(d, Two)))))

CoshAbs(x) ==
    Bind(ExpAbs(x), LAMBDA ex :
        Bind(Recip(ex), LAMBDA rx :
            Bind(FAdd(ex, rx), LAMBDA d : FDiv(d, Two))))

TooBig(x) == x.e + NumDigits(x.m) - 1 >= 2 \/ FixOf(x) >= ExpLimit * AngleScale

MathSinh(x) ==
    IF x.k # "fin" THEN Returns(x)
    ELSE IF IsSmall(x) THEN Returns(x)
    ELSE IF TooBig(x) THEN Raises("OverflowError")
    ELSE Bind(SinhAbs(x), LAMBDA v :
             IF ~IsFinite(v) THEN Raises("OverflowError")
             ELSE Returns(WithSign(x.s, v)))

MathCosh(x) ==
    IF x.k = "nan" THEN Returns(NaN)
    ELSE IF x.k = "inf" THEN Returns(Inf(1))
    ELSE IF IsSmall(x) THEN Returns(One)
    ELSE IF TooBig(x) THEN Raises("OverflowError")
    ELSE Bind(CoshAbs(x), LAMBDA v :
             IF ~IsFinite(v) THEN Raises("OverflowError") ELSE Returns(v))

MathTanh(x) ==
    IF x.k = "nan" THEN Returns(NaN)
    ELSE IF x.k = "inf" THEN Returns(WithSign(x.s, One))
    ELSE IF IsSmall(x) THEN Returns(x)
    ELSE IF TooBig(x) THEN Returns(WithSign(x.s, One))
    ELSE Bind(CoshAbs(x), LAMBDA ch :
             IF ~IsFinite(ch) THEN Returns(WithSign(x.s, One))
             ELSE Bind(SinhAbs(x), LAMBDA sh :
                      Bind(FDiv(sh, ch), LAMBDA v :
                          Returns(WithSign(x.s, v)))))

\* float(math.pi / 180)
DegToRad == RoundFloat(1, 174532925, -10, TRUE)

\* math.radians(x)
MathRadians(x) == FMul(x, DegToRad)

\* math.pi
MathPi == RoundFloat(1, 314159265, -8, TRUE)


(* ------------------------ scientific engine ---------------------------- *)

\* an exception leaves the method before any assignment
Raise(c, e) == [c EXCEPT !.raised = e]

\* variant: the operand is taken as radians in both modes
angle_ignoring_mode(c, x) == x

angle(c, x) == IF c.is_degree_mode THEN MathRadians(x) ELSE x

\* variant: the constant is entered as a fresh number after a result
insert_pi_fresh(c) ==
    Bind(FormatG(MathPi, FmtDigits),
         LAMBDA text : update_display([c EXCEPT !.current = text,
                                                !.just_evaluated = FALSE]))

insert_pi(c) ==
    Bind(FormatG(MathPi, FmtDigits),
         LAMBDA text : update_display([c EXCEPT !.current = text]))

\* variant: squaring drops the pending operator
square_clearing_pending(c) ==
    Bind(current_value(c), LAMBDA val :
        Bind(FMul(val, val), LAMBDA res :
            set_current_from_value([c EXCEPT !.pending_op = "none"], res)))

square(c) ==
    Bind(current_value(c), LAMBDA val :
        Bind(FMul(val, val), LAMBDA res : set_current_from_value(c, res)))

cube(c) ==
    Bind(current_value(c), LAMBDA val :
        Bind(FMul(val, val), LAMBDA sq :
            Bind(FMul(sq, val), LAMBDA res :
                set_current_from_value(c, res))))

\* the outcome r of the math call: the exception leaves the method, the
\* value is shown
Shows(c, r) ==
    IF r.exc # "none" THEN Raise(c, r.exc)
    ELSE Bind(r.val, LAMBDA val : set_current_from_value(c, val))

sin(c) ==
    Bind(current_value(c), LAMBDA v :
        Bind(angle(c, v), LAMBDA x :
            Bind(MathSin(x), LAMBDA r : Shows(c, r))))

cos(c) ==
    Bind(current_value(c), LAMBDA v :
        Bind(angle(c, v), LAMBDA x :
            Bind(MathCos(x), LAMBDA r : Shows(c, r))))

\* the only method with a handler: except Exception shows "Error"
tan(c) ==
    Bind(current_value(c), LAMBDA v :
        Bind(angle(c, v), LAMBDA x :
            Bind(MathTan(x), LAMBDA r :
                IF r.exc # "none"
                THEN update_display([c EXCEPT !.current = ErrorText])
                ELSE Shows(c, r))))

sinh(c) ==
    Bind(current_value(c), LAMBDA x :
        Bind(MathSinh(x), LAMBDA r : Shows(c, r)))

cosh(c) ==
    Bind(current_value(c), LAMBDA x :
        Bind(MathCosh(x), LAMBDA r : Shows(c, r)))

tanh(c) ==
    Bind(current_value(c), LAMBDA x :
        Bind(MathTanh(x), LAMBDA r : Shows(c, r)))

set_deg(c) == [c EXCEPT !.is_degree_mode = TRUE]

\* variant: the mode key re-sends the text to the display
set_rad_notifying(c) == update_display([c EXCEPT !.is_degree_mode = FALSE])

set_rad(c) == [c EXCEPT !.is_degree_mode = FALSE]

(* ------------------------------ buttons -------------------------------- *)

\* digit keys pressed in the runs Spec and SpecBasic
Digits == {"0", "5", "9"}

\* digit keys pressed in the runs SpecChain
ChainDigits == {"2", "3", "4"}

\* the history of the folds: the operand each operator or "=" key found in
\* self.current, since the chain of operations began
TrailAfter(c, lbl) ==
    IF c.current = ErrorText THEN <<>>
    ELSE IF c.pending_op # "none"
    THEN Append(trail, [v |-> current_value(c), key |-> lbl])
    ELSE IF lbl = "=" THEN <<>>
    ELSE <<[v |-> current_value(c), key |-> lbl]>>

\* on_button(label): the engine object becomes the result of the method
\* the label is wired to
Press(lbl, result, tr, bound) ==
    /\ nkeys < bound
    /\ \E c \in {result} :
        /\ nkeys' = nkeys + 1
        /\ label' = lbl
        /\ previous' = current
        /\ trail' = tr
        /\ cls' = c.cls
        /\ acc' = c.acc
        /\ current' = c.current
        /\ pending_op' = c.pending_op
        /\ just_evaluated' = c.just_evaluated
        /\ is_degree_mode' = c.is_degree_mode
        /\ display' = c.display
        /\ raised' = c.raised
        /\ UNCHANGED <<viewer, recorder>>

\* the engine object as a call finds it
Called == {[Self EXCEPT !.raised = "none"]}

PressAC(b) == \E c \in Called : Press("AC", reset(c), <<>>, b)

PressSign(b) == \E c \in Called : Press("+/-", negative_positive(c), trail, b)

PressPercent(b) == \E c \in Called : Press("%", percent(c), trail, b)

PressOperator(b) ==
    \E op \in OpLabels, c \in Called :
        Press(op, press_operator(c, op), TrailAfter(c, op), b)

PressEqual(b) ==
    \E c \in Called : Press("=", equal(c), TrailAfter(c, "="), b)

PressDot(b) == \E c \in Called : Press(".", input_dot(c), trail, b)

PressDigit(D, b) ==
    \E d \in D, c \in Called : Press(d, input_digit(c, d), trail, b)

\* the keys below exist on the scientific calculator only
IsScientific == cls = "EngineeringCalculator"

PressDeg ==
    IsScientific /\ \E c \in Called : Press("Deg", set_deg(c), trail, MaxKeys)

PressRad ==
    IsScientific /\ \E c \in Called : Press("Rad", set_rad(c), trail, MaxKeys)

PressPi ==
    IsScientific /\ \E c \in Called : Press("pi", insert_pi(c), trail, MaxKeys)

PressSquare ==
    IsScientific /\ \E c \in Called : Press("x2", square(c), trail, MaxKeys)

PressCube ==
    IsScientific /\ \E c \in Called : Press("x3", cube(c), trail, MaxKeys)

PressSin ==
    IsScientific /\ \E c \in Called : Press("sin", sin(c), trail, MaxKeys)

PressCos ==
    IsScientific /\ \E c \in Called : Press("cos", cos(c), trail, MaxKeys)

PressTan ==
    IsScientific /\ \E c \in Called : Press("tan", tan(c), trail, MaxKeys)

PressSinh ==
    IsScientific /\ \E c \in Called : Press("sinh", sinh(c), trail, MaxKeys)

PressCosh ==
    IsScientific /\ \E c \in Called : Press("cosh", cosh(c), trail, MaxKeys)

PressTanh ==
    IsScientific /\ \E c \in Called : Press("tanh", tanh(c), trail, MaxKeys)

\* placeholder keys pressed in the runs (the panel has twenty of them, all
\* handled by the same branch)
unimpl_funcs == {"mc", "x!", "("}

\* the characters of a placeholder key's label
LabelText(lbl) ==
    CASE lbl = "mc" -> <<"m", "c">>
      [] lbl = "x!" -> <<"x", "!">>
      [] OTHER      -> <<"(">>

\* variant: the label is also appended to the engine's text
visual_append_routed(c, lbl) ==
    Bind(IF c.display = <<>> \/ c.display[Len(c.display)] = " "
         THEN <<>> ELSE <<" ">>,
         LAMBDA sep :
            [c EXCEPT !.display = c.display \o sep \o LabelText(lbl) \o <<" ">>,
                      !.current = c.current \o LabelText(lbl)])

\* on_button for a placeholder key: after the notice the label is appended
\* to what the display widget shows; no method of the engine is called
visual_append(c, lbl) ==
    Bind(IF c.display = <<>> \/ c.display[Len(c.display)] = " "
         THEN <<>> ELSE <<" ">>,
         LAMBDA sep :
            [c EXCEPT !.display = c.display \o sep \o LabelText(lbl) \o <<" ">>])

PressUnimplemented(b) ==
    /\ IsScientific
    /\ \E lbl \in unimpl_funcs, c \in Called :
            Press(lbl, visual_append(c, lbl), trail, b)

(* --------------------------- the image viewer -------------------------- *)
(* CCTVViewer of Quiz09/cctv.py: a list of image paths, the index of the    *)
(* image on show, and the handlers bound to the Right, Left and Escape keys *)
(* and to the resize event.                                                 *)

\* what the label shows is the path of an image (1, 2, ...), nothing yet,
\* or the text "No images found"
NothingShown == 0

NoImagesText == -1

\* no viewer window has been opened
NoViewer ==
    [images |-> <<>>, idx |-> 0, shown |-> NothingShown, destroyed |-> FALSE,
     event |-> "", idx_before |-> 0, nevents |-> 0]

\* duration is None: record until Enter is pressed
NoDuration == -1

\* no recording has been started
NoRecorder ==
    [pc |-> "idle", duration |-> NoDuration, samplerate |-> 0,
     frames_to_write |-> 0, frames_written |-> 0, q |-> <<>>, wav |-> <<>>,
     stop_event |-> FALSE, enqueued |-> 0, enq_at_stop |-> 0]

\* a % n as Python computes it: the result has the sign of n
PyMod(a, n) == a - n * (a \div n)

\* show_image: the label shows the image at idx when it opens (ok), keeps
\* what it showed when opening fails, and shows a text for an empty list
show_image(v, ok) ==
    IF v.images = <<>> THEN [v EXCEPT !.shown = NoImagesText]
    ELSE IF ok THEN [v EXCEPT !.shown = v.images[v.idx + 1]]
    ELSE v

\* variant: next stops at the last image
next_image_clamped(v, ok) ==
    IF v.images = <<>> THEN v
    ELSE show_image([v EXCEPT !.idx = IF v.idx + 1 < Len(v.images)
                                      THEN v.idx + 1 ELSE v.idx], ok)

next_image(v, ok) ==
    IF v.images = <<>> THEN v
    ELSE show_image([v EXCEPT !.idx = PyMod(v.idx + 1, Len(v.images))], ok)

prev_image(v, ok) ==
    IF v.images = <<>> THEN v
    ELSE show_image([v EXCEPT !.idx = PyMod(v.idx - 1, Len(v.images))], ok)

\* an event delivered to the window: its handler runs and the event is
\* remembered together with the index it found
Deliver(ev, result) ==
    /\ ~viewer.destroyed
    /\ viewer.nevents < MaxViewerKeys
    /\ viewer' = [result EXCEPT !.event = ev,
                                !.idx_before = viewer.idx,
                                !.nevents = viewer.nevents + 1]
    /\ UNCHANGED <<cls, acc, current, pending_op, just_evaluated,
                   is_degree_mode, display, raised, label, previous, trail,
                   nkeys, recorder>>

KeyRight == \E ok \in BOOLEAN : Deliver("Right", next_image(viewer, ok))

KeyLeft == \E ok \in BOOLEAN : Deliver("Left", prev_image(viewer, ok))

KeyEscape == Deliver("Escape", [viewer EXCEPT !.destroyed = TRUE])

\* _on_resize: the image on show is drawn again
Configure == \E ok \in BOOLEAN : Deliver("Configure", show_image(viewer, ok))

\* the paths collect_images returns, in their sorted order
Paths(n) == [i \in 1..n |-> i]

\* CCTVViewer(images): idx = 0 and the first image is shown
InitViewer ==
    /\ \E n \in 0..MaxImages, ok \in BOOLEAN :
            viewer = show_image([NoViewer EXCEPT !.images = Paths(n)], ok)
    /\ recorder = NoRecorder
    /\ cls = "Calculator"
    /\ acc = Zero
    /\ current = <<"0">>
    /\ pending_op = "none"
    /\ just_evaluated = FALSE
    /\ is_degree_mode = TRUE
    /\ display = <<"0">>
    /\ raised = "none"
    /\ label = ""
    /\ previous = <<"0">>
    /\ trail = <<>>
    /\ nkeys = 0

NextViewer ==
    \/ KeyRight
    \/ KeyLeft
    \/ KeyEscape
    \/ Configure

SpecViewer == InitViewer /\ [][NextViewer]_vars

(* ------------------------------ the recorder --------------------------- *)
(* record_to_file of Quiz07/javis.py and Quiz08/javis.py: the audio         *)
(* callback puts chunks on a queue, the main thread takes them off and      *)
(* writes them to the file, and in press-Enter mode a third thread sets     *)
(* stop_event.  pc is the position of the main thread: "test" before the    *)
(* condition of its while loop, "get" inside q.get(), "done" after the      *)
(* loop, "interrupted" after a KeyboardInterrupt.                           *)

\* durations asked for, in tenths of a second, and sample rates
Durations == {5, 10, 15}

Rates == {2, 3}

\* frames of one block handed to the callback
ChunkLens == {1, 2}

\* int(duration * samplerate) for a duration given in tenths
FramesToWrite(d, rate) == (d * rate) \div 10

\* a step of the recorder leaves the calculators and the viewer alone
Recording(r) ==
    /\ recorder' = r
    /\ UNCHANGED <<cls, acc, current, pending_op, just_evaluated,
                   is_degree_mode, display, raised, label, previous, trail,
                   nkeys, viewer>>

\* the input stream is open: the main thread is inside the with block
StreamOpen == recorder.pc \in {"test", "get"}

\* cb: the callback puts a copy of the block on the queue
Cb ==
    /\ StreamOpen
    /\ recorder.enqueued < MaxChunks
    /\ \E n \in ChunkLens :
        Recording([recorder EXCEPT
            !.q = Append(@, [id |-> recorder.enqueued + 1, len |-> n]),
            !.enqueued = @ + 1])

\* wait_for_enter: input() has returned and the event is set
WaitForEnter ==
    /\ StreamOpen
    /\ recorder.duration = NoDuration
    /\ ~recorder.stop_event
    /\ Recording([recorder EXCEPT !.stop_event = TRUE,
                                  !.enq_at_stop = recorder.enqueued])

\* the condition of the while loop of the mode
LoopTest ==
    /\ recorder.pc = "test"
    /\ Recording([recorder EXCEPT !.pc =
            IF recorder.duration = NoDuration
            THEN (IF recorder.stop_event THEN "done" ELSE "get")
            ELSE (IF recorder.frames_written < recorder.frames_to_write
                  THEN "get" ELSE "done")])

\* q.get() returns the oldest chunk and wav.write appends it to the file;
\* the fixed-duration loop counts its frames
GetAndWrite ==
    /\ recorder.pc = "get"
    /\ recorder.q # <<>>
    /\ Recording([recorder EXCEPT
            !.q = Tail(@),
            !.wav = Append(@, Head(recorder.q)),
            !.frames_written = IF recorder.duration = NoDuration THEN @
                               ELSE @ + Head(recorder.q).len,
            !.pc = "test"])

\* KeyboardInterrupt ends the loop
Interrupt ==
    /\ StreamOpen
    /\ Recording([recorder EXCEPT !.pc = "interrupted"])

\* record_to_file(duration, device, samplerate, channels) up to its loop
InitRecorder ==
    /\ \E d \in Durations \cup {NoDuration}, rate \in Rates :
            recorder = [NoRecorder EXCEPT
                !.pc = "test", !.duration = d, !.samplerate = rate,
                !.frames_to_write = IF d = NoDuration THEN 0
                                    ELSE FramesToWrite(d, rate)]
    /\ viewer = NoViewer
    /\ cls = "Calculator"
    /\ acc = Zero
    /\ current = <<"0">>
    /\ pending_op = "none"
    /\ just_evaluated = FALSE
    /\ is_degree_mode = TRUE
    /\ display = <<"0">>
    /\ raised = "none"
    /\ label = ""
    /\ previous = <<"0">>
    /\ trail = <<>>
    /\ nkeys = 0

NextRecorder ==
    \/ Cb
    \/ WaitForEnter
    \/ LoopTest
    \/ GetAndWrite
    \/ Interrupt

SpecRecorder == InitRecorder /\ [][NextRecorder]_vars

(* ------------------------------ the calculators ------------------------ *)

\* the engine object after __init__
Constructed(k) ==
    /\ cls = k
    /\ acc = Zero
    /\ current = <<"0">>
    /\ pending_op = "none"
    /\ just_evaluated = FALSE
    /\ is_degree_mode = TRUE
    /\ display = <<"0">>
    /\ raised = "none"
    /\ label = ""
    /\ previous = <<"0">>
    /\ trail = <<>>
    /\ nkeys = 0
    /\ viewer = NoViewer
    /\ recorder = NoRecorder

\* CalculatorUI with its Calculator, or EngineeringCalculatorUI with its
\* EngineeringCalculator
Init == \E k \in {"Calculator", "EngineeringCalculator"} : Constructed(k)

\* every key of the calculator
Next ==
    \/ PressAC(MaxKeys)
    \/ PressSign(MaxKeys)
    \/ PressPercent(MaxKeys)
    \/ PressOperator(MaxKeys)
    \/ PressEqual(MaxKeys)
    \/ PressDot(MaxKeys)
    \/ PressDigit(Digits, MaxKeys)
    \/ PressDeg
    \/ PressRad
    \/ PressPi
    \/ PressSquare
    \/ PressCube
    \/ PressSin
    \/ PressCos
    \/ PressTan
    \/ PressSinh
    \/ PressCosh
    \/ PressTanh

Spec == Init /\ [][Next]_vars

\* longer runs of the keys both calculators have
NextBasic ==
    \/ PressAC(MaxBasicKeys)
    \/ PressSign(MaxBasicKeys)
    \/ PressPercent(MaxBasicKeys)
    \/ PressOperator(MaxBasicKeys)
    \/ PressEqual(MaxBasicKeys)
    \/ PressDot(MaxBasicKeys)
    \/ PressDigit(Digits, MaxBasicKeys)

SpecBasic == Init /\ [][NextBasic]_vars

\* longer runs of digits, operators and "="
NextChain ==
    \/ PressOperator(MaxChainKeys)
    \/ PressEqual(MaxChainKeys)
    \/ PressDigit(ChainDigits, MaxChainKeys)

SpecChain == Init /\ [][NextChain]_vars

\* longer runs of number entry, sign and "="
NextEntry ==
    \/ PressSign(MaxEntryKeys)
    \/ PressEqual(MaxEntryKeys)
    \/ PressDot(MaxEntryKeys)
    \/ PressDigit(Digits, MaxEntryKeys)

SpecEntry == Init /\ [][NextEntry]_vars

\* runs of the scientific panel that include its placeholder keys
NextPanel ==
    \/ PressOperator(MaxPanelKeys)
    \/ PressEqual(MaxPanelKeys)
    \/ PressDigit(Digits, MaxPanelKeys)
    \/ PressUnimplemented(MaxPanelKeys)

SpecPanel == Init /\ [][NextPanel]_vars

\* runs of number entry, percent, "=" and the unary scientific keys
NextUnary ==
    \/ PressPercent(MaxKeys)
    \/ PressEqual(MaxKeys)
    \/ PressDigit(Digits, MaxKeys)
    \/ PressPi
    \/ PressSquare
    \/ PressCube
    \/ PressSin
    \/ PressCos
    \/ PressTan
    \/ PressSinh
    \/ PressCosh
    \/ PressTanh

SpecUnary == Init /\ [][NextUnary]_vars

\* runs of the mode keys, Clear, the operator keys and "="
NextMode ==
    \/ PressAC(MaxKeys)
    \/ PressOperator(MaxKeys)
    \/ PressEqual(MaxKeys)
    \/ PressDeg
    \/ PressRad

SpecMode == Init /\ [][NextMode]_vars

(* ------------------------------ properties ----------------------------- *)

\* a op b for the four operator keys
ApplyOp(op, a, b) ==
    CASE op = "+" -> FAdd(a, b)
      [] op = "-" -> FSub(a, b)
      [] op = "*" -> FMul(a, b)
      [] OTHER    -> FDiv(a, b)

\* the text a result is shown as: the formatted number, and on the
\* scientific engine the error marker for a result that is not finite
Render(k, val) ==
    IF k = "Calculator" \/ IsFinite(val) THEN FormatG(val, FmtDigits)
    ELSE ErrorText

\* optional leading "-", then digits with at most one ".", not empty
IsNumericLiteral(t) ==
    LET u == IF t # <<>> /\ t[1] = "-" THEN Tail(t) ELSE t
    IN  /\ u # <<>>
        /\ \A i \in 1..Len(u) : IsDigit(u[i]) \/ u[i] = "."
        /\ \E i \in 1..Len(u) : IsDigit(u[i])
        /\ Cardinality({i \in 1..Len(u) : u[i] = "."}) <= 1

\* the operands of the chain folded from the left, up to the n-th
RECURSIVE FoldLeft(_, _)
FoldLeft(tr, n) ==
    IF n = 1 THEN tr[1].v
    ELSE ApplyOp(tr[n - 1].key, FoldLeft(tr, n - 1), tr[n].v)

\* some fold of the chain divided by zero
DividedByZero(tr) ==
    \E i \in 2..Len(tr) : tr[i - 1].key = "/" /\ IsZero(tr[i].v)

\* C1: after a, op1, b, op2, c, "=" (and any longer chain) without a
\* division by zero the display shows the formatted value of the operands
\* folded strictly from the left, (a op1 b) op2 c: there is no precedence
ChainedFoldLeftToRight ==
    (label = "=" /\ Len(trail) >= 3 /\ ~DividedByZero(trail))
        => display = Render(cls, FoldLeft(trail, Len(trail)))

\* 2 + 3 * 4 = has been entered and the display shows 20
ChainedFoldWitness ==
    /\ label = "="
    /\ trail = <<[v |-> Fin(1, 2, 0), key |-> "+"],
                 [v |-> Fin(1, 3, 0), key |-> "*"],
                 [v |-> Fin(1, 4, 0), key |-> "="]>>
    /\ display = <<"2", "0">>

\* C2: "=" with a pending division and a right operand equal to 0 ends with
\* the error marker as text and on the display, accumulator 0, no pending
\* operator and just_evaluated set; AC pressed after it gives "0" with no
\* pending operator
DivisionByZeroContained ==
    [][ /\ (/\ label' = "="
            /\ current # ErrorText
            /\ pending_op = "/"
            /\ IsZero(current_value(Self)))
           => (/\ current' = ErrorText
               /\ display' = ErrorText
               /\ acc' = Zero
               /\ pending_op' = "none"
               /\ just_evaluated' = TRUE)
        /\ (current = ErrorText /\ label' = "AC")
           => (current' = <<"0">> /\ pending_op' = "none") ]_vars

\* 5 / 0 = has been entered: the engine holds the error marker
DivisionByZeroWitness ==
    /\ label = "="
    /\ trail = <<[v |-> Fin(1, 5, 0), key |-> "/"],
                 [v |-> Zero, key |-> "="]>>
    /\ current = ErrorText
    /\ display = ErrorText

\* the keys named as unable to leave the Error state
ErrorKeepingKeys ==
    {"+/-", "%", "pi", "x2", "x3", "sin", "cos", "tan", "sinh", "cosh", "tanh"}

\* C3: once the text is the error marker, none of ToggleSign, Percent,
\* InsertConstantPi, Square, Cube, Sin, Cos, Tan, Sinh, Cosh, Tanh turns it
\* into another text: it stays the error marker until Clear or the
\* auto-clear of the next operator or "="
ErrorMarkerPersists ==
    [][ (current = ErrorText /\ label' \in ErrorKeepingKeys)
            => current' = ErrorText ]_vars

\* C4: in every reachable state the text is a numeric literal (optional
\* leading "-", digits, at most one ".") or exactly the error marker, and
\* never empty
CurrentTextWellFormed ==
    current = ErrorText \/ IsNumericLiteral(current)

\* C5: no action raises to its caller: every failure is engine state only
NoActionRaises == raised = "none"

\* the result the action of key lbl computes from the state it is pressed
\* in, as <<computed, value>>
ResultOf(lbl) ==
    LET v == current_value(Self)
        x == IF is_degree_mode THEN MathRadians(v) ELSE v
        m == CASE lbl = "sin"  -> MathSin(x)
               [] lbl = "cos"  -> MathCos(x)
               [] lbl = "tan"  -> MathTan(x)
               [] lbl = "sinh" -> MathSinh(v)
               [] lbl = "cosh" -> MathCosh(v)
               [] OTHER        -> MathTanh(v)
    IN  IF lbl = "%"
        THEN <<TRUE, IF pending_op # "none"
                     THEN FMul(acc, FDiv(v, Hundred))
                     ELSE FDiv(v, Hundred)>>
        ELSE IF lbl \in OpLabels \cup {"="}
        THEN (IF current # ErrorText /\ pending_op # "none"
                   /\ ~(pending_op = "/" /\ IsZero(v))
              THEN <<TRUE, ApplyOp(pending_op, acc, v)>>
              ELSE <<FALSE, Zero>>)
        ELSE IF lbl = "x2" THEN <<TRUE, FMul(v, v)>>
        ELSE IF lbl = "x3" THEN <<TRUE, FMul(FMul(v, v), v)>>
        ELSE IF lbl \in {"sin", "cos", "tan", "sinh", "cosh", "tanh"}
        THEN <<m.exc = "none", m.val>>
        ELSE <<FALSE, Zero>>

\* C6: whenever a binary fold, "=", Percent or a scientific action computes
\* a result that is not finite, the error marker becomes the text and the
\* display text, on the basic engine as on the scientific engine
NonFiniteRendersError ==
    [][ (ResultOf(label')[1] /\ ~IsFinite(ResultOf(label')[2]))
            => (current' = ErrorText /\ display' = ErrorText) ]_vars

PercentRelative ==
    [][ /\ label' = "%"
           => (/\ current' = Render(cls, ResultOf("%")[2])
               /\ display' = current'
               /\ acc' = acc
               /\ pending_op' = pending_op)
        /\ (label = "%" /\ label' = "=" /\ pending_op # "none"
              /\ ResultOf("=")[1])
           => display' = Render(cls, ApplyOp(pending_op, acc,
                                             current_value(Self))) ]_vars

\* 5 + 5 % = has been entered: the percentage was 5 * (5 / 100) = 0.25,
\* not 0.05, and the sum shown is 5.25
PercentWitness ==
    /\ label = "="
    /\ trail = <<[v |-> Fin(1, 5, 0), key |-> "+"],
                 [v |-> Fin(1, 25, -2), key |-> "="]>>
    /\ previous = <<"0", ".", "2", "5">>
    /\ display = <<"5", ".", "2", "5">>

\* C9: "=" with no pending operator and a numeric text leaves the shown
\* value numerically equal to the value before, leaves the accumulator and
\* the pending operator unchanged and sets just_evaluated; a second "="
\* changes nothing further
EvaluateIdempotent ==
    [][ /\ (label' = "=" /\ pending_op = "none" /\ ParseFloat(current).ok)
           => (/\ ParseFloat(current').ok
               /\ ParseFloat(current').val = ParseFloat(current).val
               /\ display' = current'
               /\ acc' = acc
               /\ pending_op' = "none"
               /\ just_evaluated' = TRUE)
        /\ (label = "=" /\ label' = "=" /\ pending_op = "none"
              /\ ParseFloat(current).ok)
           => (/\ current' = current
               /\ display' = display
               /\ acc' = acc
               /\ just_evaluated' = just_evaluated) ]_vars

\* a text typed with the digit and point keys only
IsTyped(t) ==
    /\ t # <<>>
    /\ \A i \in 1..Len(t) : IsDigit(t[i]) \/ t[i] = "."

\* C10: for a number entered with the digit and point keys, two
\* consecutive sign toggles restore the text exactly; a sign toggle never
\* changes accumulator, pending operator or just_evaluated, and leaves the
\* text "0" as it is
SignToggleRoundTrip ==
    [][ /\ label' = "+/-"
           => (/\ acc' = acc
               /\ pending_op' = pending_op
               /\ just_evaluated' = just_evaluated
               /\ (current = <<"0">> => current' = <<"0">>))
        /\ (label = "+/-" /\ label' = "+/-" /\ IsTyped(previous))
           => current' = previous ]_vars

\* 5.9 has been typed and the sign toggled twice: the text is 5.9 again
SignToggleWitness ==
    /\ label = "+/-"
    /\ previous = <<"-", "5", ".", "9">>
    /\ current = <<"5", ".", "9">>
    /\ nkeys = 5

\* number of "." characters of a text
DotCount(t) == Cardinality({i \in 1..Len(t) : t[i] = "."})

\* C11: in every reachable state the text holds at most one ".": the point
\* key appends one only to a text that has none, whatever digits, sign
\* toggles, operators and results come between two presses of it
AtMostOneDot == DotCount(current) <= 1

\* the point key has been pressed on a text that already holds a point,
\* and the text is as it was
AtMostOneDotWitness ==
    /\ label = "."
    /\ DotCount(previous) = 1
    /\ current = previous
    /\ Len(current) >= 3

\* the text and the exception a trigonometric or hyperbolic key leaves for
\* the outcome r of its math call, tan showing "Error" for an exception
Outcome(lbl, r) ==
    IF r.exc = "none"
    THEN <<IF IsFinite(r.val) THEN FormatG(r.val, FmtDigits) ELSE ErrorText,
           "none">>
    ELSE IF lbl = "tan" THEN <<ErrorText, "none">>
    ELSE <<current, r.exc>>

\* C12: sin, cos and tan are applied to the operand converted from degrees
\* to radians exactly when the mode is Degrees and to the operand itself in
\* Radians: 90 sin shows 1 in Degrees.  The mode is Degrees at
\* construction.  sinh, cosh and tanh take the operand itself in both modes
AngleModeSensitivity ==
    /\ (nkeys = 0 => is_degree_mode)
    /\ [][ /\ label' = "sin" =>
                <<current', raised'>> =
                    Outcome("sin", MathSin(IF is_degree_mode
                                           THEN MathRadians(current_value(Self))
                                           ELSE current_value(Self)))
           /\ label' = "cos" =>
                <<current', raised'>> =
                    Outcome("cos", MathCos(IF is_degree_mode
                                           THEN MathRadians(current_value(Self))
                                           ELSE current_value(Self)))
           /\ label' = "tan" =>
                <<current', raised'>> =
                    Outcome("tan", MathTan(IF is_degree_mode
                                           THEN MathRadians(current_value(Self))
                                           ELSE current_value(Self)))
           /\ label' = "sinh" =>
                <<current', raised'>> =
                    Outcome("sinh", MathSinh(current_value(Self)))
           /\ label' = "cosh" =>
                <<current', raised'>> =
                    Outcome("cosh", MathCosh(current_value(Self)))
           /\ label' = "tanh" =>
                <<current', raised'>> =
                    Outcome("tanh", MathTanh(current_value(Self)))
           /\ (label' = "sin" /\ current = <<"9", "0">> /\ is_degree_mode)
                => display' = <<"1">> ]_vars

\* Rad, 9, 0, sin has been entered: the display shows sin(90 rad) = 0.894
AngleModeWitness ==
    /\ label = "sin"
    /\ ~is_degree_mode
    /\ previous = <<"9", "0">>
    /\ display = <<"0", ".", "8", "9", "4">>

\* accumulator 0, text "0", no pending operator, just_evaluated false, and
\* "0" on the display
Cleared ==
    /\ acc = Zero
    /\ current = <<"0">>
    /\ pending_op = "none"
    /\ just_evaluated = FALSE
    /\ display = <<"0">>

\* C13: on the error marker an operator key and "=" each do what Clear
\* does and return: the state is the cleared configuration, the display
\* shows "0" and the operator pressed is not recorded as pending
ErrorAutoClear ==
    [][ (current = ErrorText /\ label' \in OpLabels \cup {"="}) => Cleared'
      ]_vars

\* an operator key has been pressed on the error marker
ErrorAutoClearWitness ==
    /\ label \in OpLabels
    /\ previous = ErrorText
    /\ Cleared

\* C14: an operator key that folds a pending division whose right operand
\* is 0 stops in the Error state: the text and the display are the error
\* marker, the accumulator is 0, the operator pressed is not recorded
\* (no operator is pending) and the text is not reset to "0"
ChainedDivisionByZeroStops ==
    [][ ( /\ label' \in OpLabels
          /\ pending_op = "/"
          /\ current # ErrorText
          /\ IsZero(current_value(Self)) )
        => /\ current' = ErrorText
           /\ display' = ErrorText
           /\ acc' = Zero
           /\ pending_op' = "none" ]_vars

\* 5 / 0 followed by an operator key: the fold has divided 5 by zero
ChainedDivisionByZeroWitness ==
    /\ label \in OpLabels
    /\ Len(trail) = 2
    /\ trail[1] = [v |-> Fin(1, 5, 0), key |-> "/"]
    /\ IsZero(trail[2].v)
    /\ current = ErrorText

\* C15: the engine is constructed in the cleared configuration and Clear
\* leads to it from every reachable state: accumulator 0, text "0", no
\* pending operator, just_evaluated false, display notified with "0"
ConstructionAndClearYieldCleared == (nkeys = 0 \/ label = "AC") => Cleared

\* Clear has been pressed on the error marker
ClearedWitness ==
    /\ label = "AC"
    /\ previous = ErrorText
    /\ Cleared

\* the states of the basic engine: Idle (no operator pending, no error),
\* OperandPending, Error
Idle == pending_op = "none" /\ current # ErrorText

\* the handler whose result is r has returned without an exception
Completes(r) == r.raised = "none"

\* C16: the basic engine has no terminal or stuck state: in every
\* reachable state the handler of every key of the basic engine applies
\* and returns without an exception, Clear leads to Idle from every state,
\* and from Error an operator key or "=" leads to Idle
NoStuckState ==
    /\ \A c \in Called :
            /\ Completes(reset(c))
            /\ Completes(negative_positive(c))
            /\ Completes(percent(c))
            /\ \A op \in OpLabels : Completes(press_operator(c, op))
            /\ Completes(equal(c))
            /\ Completes(input_dot(c))
            /\ \A d \in Digits : Completes(input_digit(c, d))
    /\ raised = "none"
    /\ label = "AC" => Idle
    /\ (previous = ErrorText /\ label \in OpLabels \cup {"="}) => Idle

\* "=" has been pressed in the Error state and the engine is Idle again,
\* with keys still to come
NoStuckStateWitness ==
    /\ label = "="
    /\ previous = ErrorText
    /\ Idle

\* the keys of the unary scientific operations
SciKeys == {"pi", "x2", "x3", "sin", "cos", "tan", "sinh", "cosh", "tanh"}

\* C17: every unary scientific key leaves the accumulator and the pending
\* operator as they were, in every state; pressed with an operator pending
\* it changes the right operand only, and a following "=" applies the
\* pending operation to the accumulator and the transformed text
ScientificKeysKeepPending ==
    [][ /\ label' \in SciKeys =>
                (acc' = acc /\ pending_op' = pending_op)
        /\ ( /\ label \in SciKeys
             /\ label' = "="
             /\ pending_op # "none"
             /\ current # ErrorText
             /\ ~(pending_op = "/" /\ IsZero(current_value(Self))) )
           => acc' = ApplyOp(pending_op, acc, current_value(Self)) ]_vars

\* 5 + 5 x2: the right operand is 25, 5 + is still pending
ScientificKeysWitness ==
    /\ label = "x2"
    /\ pending_op = "+"
    /\ acc = Fin(1, 5, 0)
    /\ previous = <<"5">>
    /\ current = <<"2", "5">>

\* C18: Deg and Rad change the angle mode only: the accumulator, the
\* text, the pending operator and just_evaluated are as before and the
\* display is not notified
AngleModeKeysChangeFlagOnly ==
    [][ label' \in {"Deg", "Rad"} =>
            /\ is_degree_mode' = (label' = "Deg")
            /\ acc' = acc
            /\ current' = current
            /\ pending_op' = pending_op
            /\ just_evaluated' = just_evaluated
            /\ display' = display ]_vars

\* Rad pressed after an operator key: the display still shows the left
\* operand while the text is "0"
AngleModeKeysWitness ==
    /\ label = "Rad"
    /\ ~is_degree_mode
    /\ pending_op # "none"
    /\ display # current

\* C19: in every reachable state, after every completed action, the
\* accumulator holds a finite number
AccumulatorFinite == IsFinite(acc)

\* an integer text of several digits, signed or not, whose first digit is 0
HasLeadingZero(t) ==
    LET u == IF t # <<>> /\ t[1] = "-" THEN Tail(t) ELSE t
    IN  /\ Len(u) >= 2
        /\ \A i \in 1..Len(u) : IsDigit(u[i])
        /\ u[1] = "0"

\* the text a digit key leaves: after a result with no operator pending
\* the entry restarts from "0"; the digit replaces "0" and is appended to
\* any other text
DigitEntered(d) ==
    LET base == IF just_evaluated /\ pending_op = "none"
                THEN <<"0">> ELSE current
    IN  IF base = <<"0">> THEN <<d>> ELSE Append(base, d)

\* C20: a digit key pressed on a numeric text discards a previous result
\* when nothing is pending (just_evaluated becomes false), then replaces
\* the text "0" by the digit and appends the digit to any other text;
\* accumulator and pending operator are unchanged, and the text it leaves
\* is never an integer of several digits with a leading 0
DigitEntryNoLeadingZero ==
    [][ (IsDigit(label') /\ IsNumericLiteral(current)) =>
            /\ current' = DigitEntered(label')
            /\ display' = current'
            /\ just_evaluated' = (just_evaluated /\ pending_op # "none")
            /\ acc' = acc
            /\ pending_op' = pending_op
            /\ ~HasLeadingZero(current') ]_vars

\* C21: an operator key pressed with no operator pending, on a text other
\* than the error marker, moves the value of the text to the accumulator,
\* records the operator, clears just_evaluated and resets the text to "0";
\* pressed right after "=" it makes the result the left operand
OperatorTakesLeftOperand ==
    [][ (label' \in OpLabels /\ pending_op = "none" /\ current # ErrorText)
        => /\ acc' = current_value(Self)
           /\ pending_op' = label'
           /\ just_evaluated' = FALSE
           /\ current' = <<"0">> ]_vars

\* 5 + 5 = followed by an operator key: the result 10 is the left operand
OperatorTakesLeftOperandWitness ==
    /\ label \in OpLabels
    /\ previous = <<"1", "0">>
    /\ acc = Fin(1, 10, 0)
    /\ pending_op = label
    /\ current = <<"0">>
    /\ ~just_evaluated

\* C22: "=" with an operator pending and no division by zero computes
\* accumulator op value-of-text (a + b, a - b, a * b, a / b) and ends with
\* the result in the accumulator, the formatted result as text, no
\* operator pending and just_evaluated true
EvaluateAppliesPending ==
    [][ ( /\ label' = "="
          /\ pending_op # "none"
          /\ current # ErrorText
          /\ ~(pending_op = "/" /\ IsZero(current_value(Self))) )
        => /\ acc' = ApplyOp(pending_op, acc, current_value(Self))
           /\ current' = Render(cls, acc')
           /\ pending_op' = "none"
           /\ just_evaluated' = TRUE ]_vars

\* 5 - 9 = has been entered: the accumulator and the text hold -4
EvaluateAppliesPendingWitness ==
    /\ label = "="
    /\ trail = <<[v |-> Fin(1, 5, 0), key |-> "-"],
                 [v |-> Fin(1, 9, 0), key |-> "="]>>
    /\ acc = Fin(-1, 4, 0)
    /\ current = <<"-", "4">>
    /\ pending_op = "none"
    /\ just_evaluated

\* C23: a digit key or the point key pressed on the error marker, whatever
\* operation produced the marker, starts a fresh number: the text is
\* exactly the digit, or "0." for the point key
EntryOnErrorStartsFresh ==
    [][ /\ (current = ErrorText /\ IsDigit(label'))
            => current' = <<label'>>
        /\ (current = ErrorText /\ label' = ".")
            => current' = <<"0", ".">> ]_vars

\* C24: the pi key overwrites the text with the formatted value of pi in
\* every state, whatever was being typed and whatever just_evaluated is,
\* and leaves just_evaluated, the accumulator and the pending operator as
\* they were
InsertPiOverwrites ==
    [][ label' = "pi" =>
            /\ current' = FormatG(MathPi, FmtDigits)
            /\ display' = current'
            /\ just_evaluated' = just_evaluated
            /\ acc' = acc
            /\ pending_op' = pending_op ]_vars

\* pi pressed on a result: the text 5 left by "=" is overwritten and
\* just_evaluated is still true
InsertPiWitness ==
    /\ label = "pi"
    /\ previous = <<"5">>
    /\ just_evaluated
    /\ current = <<"3", ".", "1", "4">>

\* C25: a placeholder key of the scientific panel calls no engine action:
\* accumulator, text, pending operator, just_evaluated and angle mode are
\* as before and nothing is raised
PlaceholderKeysKeepEngineState ==
    [][ label' \in unimpl_funcs =>
            /\ acc' = acc
            /\ current' = current
            /\ pending_op' = pending_op
            /\ just_evaluated' = just_evaluated
            /\ is_degree_mode' = is_degree_mode
            /\ raised' = "none" ]_vars

\* 5 + 9 followed by the factorial key: the widget shows "9 x! " while the
\* engine still holds 5 + 9
PlaceholderKeysWitness ==
    /\ label = "x!"
    /\ display = <<"9", " ", "x", "!", " ">>
    /\ current = <<"9">>
    /\ acc = Fin(1, 5, 0)
    /\ pending_op = "+"

\* on_button(label): the engine after the method the label is wired to
on_button(c, lbl) ==
    CASE lbl = "AC"       -> reset(c)
      [] lbl = "+/-"      -> negative_positive(c)
      [] lbl = "%"        -> percent(c)
      [] lbl \in OpLabels -> press_operator(c, lbl)
      [] lbl = "="        -> equal(c)
      [] lbl = "."        -> input_dot(c)
      [] IsDigit(lbl)     -> input_digit(c, lbl)
      [] lbl = "Deg"      -> set_deg(c)
      [] lbl = "Rad"      -> set_rad(c)
      [] lbl = "pi"       -> insert_pi(c)
      [] lbl = "x2"       -> square(c)
      [] lbl = "x3"       -> cube(c)
      [] lbl = "sin"      -> sin(c)
      [] lbl = "cos"      -> cos(c)
      [] lbl = "tan"      -> tan(c)
      [] lbl = "sinh"     -> sinh(c)
      [] lbl = "cosh"     -> cosh(c)
      [] lbl = "tanh"     -> tanh(c)
      [] OTHER            -> c

\* the fields of the engine and what the display shows
Fields(c) ==
    <<c.acc, c.current, c.pending_op, c.just_evaluated, c.display, c.raised>>

\* the keys whose method calls _current_value (an operator key and "=" on
\* the error marker return before they read it)
ReadsValue(lbl) ==
    \/ lbl \in {"%", "x2", "x3", "sin", "cos", "tan", "sinh", "cosh", "tanh"}
    \/ (lbl \in OpLabels \cup {"="} /\ current # ErrorText)

\* C26: when the text does not parse as a number, every key that reads the
\* current value works with 0: it leaves what it would leave on the text
\* "0" (x2 shows 0, cos shows 1) and raises nothing
UnparsableTextReadsAsZero ==
    [][ (~ParseFloat(current).ok /\ ReadsValue(label')) =>
            /\ Fields(Self)' = Fields(on_button(
                                   [Self EXCEPT !.current = <<"0">>,
                                                !.raised = "none"], label'))
            /\ raised' = "none"
            /\ label' = "x2" => current' = <<"0">>
            /\ label' = "cos" => current' = <<"1">> ]_vars

\* cos pressed on the text "-Error": the text is 1
UnparsableTextWitness ==
    /\ label = "cos"
    /\ previous = <<"-">> \o ErrorText
    /\ current = <<"1">>
    /\ raised = "none"

\* the engine of the other file in the same state
Twin ==
    [Self EXCEPT !.cls = IF cls = "Calculator" THEN "EngineeringCalculator"
                         ELSE "Calculator",
                 !.raised = "none"]

\* C27: the base calculator of the scientific file and the calculator of
\* the basic file answer every basic key alike: from equal fields the same
\* key leads both to the same accumulator, text, pending operator and
\* just_evaluated and sends the same text to the display
BasicEnginesAgree ==
    [][ \E t \in {on_button(Twin, label')} :
            /\ acc' = t.acc
            /\ current' = t.current
            /\ pending_op' = t.pending_op
            /\ just_evaluated' = t.just_evaluated
            /\ display' = t.display ]_vars

\* C28: when the fold of a chained operator key or of "=" gives a result
\* that is not finite, the action ends as a division by zero does: the
\* text is the error marker and, for an operator key, the operator
\* pressed is not recorded as pending
NonFiniteFoldStopsInError ==
    [][ ( /\ label' \in OpLabels \cup {"="}
          /\ pending_op # "none"
          /\ current # ErrorText
          /\ ~(pending_op = "/" /\ IsZero(current_value(Self)))
          /\ ~IsFinite(ApplyOp(pending_op, acc, current_value(Self))) )
        => /\ current' = ErrorText
           /\ label' \in OpLabels => pending_op' = "none" ]_vars

\* C29: in every reachable state just_evaluated implies that no operator
\* is pending, so the fresh start of digit and point entry is decided by
\* just_evaluated alone
JustEvaluatedImpliesNoPending == just_evaluated => pending_op = "none"

\* an operator key has left just_evaluated true: its fold divided by zero
\* and no operator is pending
JustEvaluatedWitness ==
    /\ label \in OpLabels
    /\ just_evaluated
    /\ pending_op = "none"

\* C30: after an operator key the right operand is "0": an operator key or
\* "=" pressed next folds the pending operation with 0 instead of
\* replacing the operator.  a * then an operator leaves accumulator 0,
\* a + = displays a, and a pending division enters the Error state
OperatorTwiceFoldsWithZero ==
    [][ ( /\ label \in OpLabels
          /\ pending_op # "none"
          /\ label' \in OpLabels \cup {"="} )
        => /\ current = <<"0">>
           /\ pending_op = "/" =>
                (current' = ErrorText /\ pending_op' = "none")
           /\ pending_op # "/" =>
                /\ acc' = ApplyOp(pending_op, acc, Zero)
                /\ pending_op' = IF label' = "=" THEN "none" ELSE label'
           /\ (pending_op = "*" /\ IsFinite(acc)) => IsZero(acc')
           /\ (pending_op = "+" /\ label' = "=") =>
                /\ acc' = acc \/ (IsZero(acc) /\ IsZero(acc'))
                /\ display' = Render(cls, acc') ]_vars

\* 3 * + has been entered: the accumulator is 3 * 0 and + is pending
OperatorTwiceWitness ==
    /\ label = "+"
    /\ trail = <<[v |-> Fin(1, 3, 0), key |-> "*"],
                 [v |-> Zero, key |-> "+"]>>
    /\ IsZero(acc)
    /\ pending_op = "+"

\* C31: an operator key pressed on a text other than the error marker
\* never sends the reset text "0" to the display: after the first
\* operator the display still shows the left operand, after a chained
\* operator it shows the formatted result of the fold, and the text is
\* "0" in both cases
OperatorKeepsDisplay ==
    [][ (label' \in OpLabels /\ current # ErrorText) =>
            /\ pending_op = "none" =>
                    /\ display' = display
                    /\ display' = current
                    /\ current' = <<"0">>
            /\ ( /\ pending_op # "none"
                 /\ ~(pending_op = "/" /\ IsZero(current_value(Self))) ) =>
                    /\ display' = Render(cls, ApplyOp(pending_op, acc,
                                                      current_value(Self)))
                    /\ current' = <<"0">> ]_vars

\* 2 + 3 followed by an operator key: the display shows 5, the text is "0"
OperatorKeepsDisplayWitness ==
    /\ label \in OpLabels
    /\ trail = <<[v |-> Fin(1, 2, 0), key |-> "+"],
                 [v |-> Fin(1, 3, 0), key |-> label]>>
    /\ display = <<"5">>
    /\ current = <<"0">>

\* C32: percent and the unary scientific keys leave just_evaluated as it
\* is.  A digit entered right after them follows the flag: with
\* just_evaluated false it is appended to the result text (5, 0, %, 5
\* gives "0.55"; the text "0" is replaced), with just_evaluated true the
\* result is discarded and the text is the digit
UnaryKeysKeepJustEvaluated ==
    [][ /\ label' \in SciKeys \cup {"%"} =>
                just_evaluated' = just_evaluated
        /\ (label \in SciKeys \cup {"%"} /\ IsDigit(label')) =>
                current' = IF just_evaluated \/ current = <<"0">>
                           THEN <<label'>>
                           ELSE Append(current, label')
        /\ ( /\ label = "%"
             /\ previous = <<"5", "0">>
             /\ ~just_evaluated
             /\ label' = "5" ) => current' = <<"0", ".", "5", "5">> ]_vars

\* 5, 0, %, 5 has been entered: the digit is appended to the result 0.5
UnaryKeysWitness ==
    /\ label = "5"
    /\ previous = <<"0", ".", "5">>
    /\ current = <<"0", ".", "5", "5">>
    /\ ~just_evaluated

\* C33: Clear and the auto-clear on the error marker leave the angle mode
\* as it is; only the mode keys change it, so Radians survives any number
\* of clears
ClearKeepsAngleMode ==
    [][ label' \notin {"Deg", "Rad"} => is_degree_mode' = is_degree_mode
      ]_vars

\* in Radians, an operator key or "=" pressed on the error marker has
\* cleared the engine and the mode is still Radians
ClearKeepsAngleModeWitness ==
    /\ ~is_degree_mode
    /\ label \in OpLabels \cup {"="}
    /\ previous = ErrorText
    /\ Cleared

\* C34: in the image viewer with a non-empty list the index stays within
\* 0 .. len(images) - 1 under any sequence of Right and Left keys; Right
\* moves to the next image and wraps from the last to the first, Left moves
\* to the previous one and wraps from the first to the last, a Right
\* followed by a Left restores the index, and with an empty list both keys
\* change nothing
ViewerIndexCycles ==
    /\ viewer.images # <<>> => viewer.idx \in 0..(Len(viewer.images) - 1)
    /\ [][ /\ viewer.images # <<>> =>
                viewer'.idx \in 0..(Len(viewer.images) - 1)
           /\ (viewer'.event = "Right" /\ viewer.images # <<>>) =>
                viewer'.idx = IF viewer.idx = Len(viewer.images) - 1
                              THEN 0 ELSE viewer.idx + 1
           /\ (viewer'.event = "Left" /\ viewer.images # <<>>) =>
                viewer'.idx = IF viewer.idx = 0
                              THEN Len(viewer.images) - 1
                              ELSE viewer.idx - 1
           /\ (viewer.event = "Right" /\ viewer'.event = "Left") =>
                viewer'.idx = viewer.idx_before
           /\ (viewer'.event \in {"Right", "Left"} /\ viewer.images = <<>>)
                => (viewer'.idx = viewer.idx /\ viewer'.shown = viewer.shown)
         ]_vars

\* Right pressed on the last of three or more images: the first is shown
ViewerWrapWitness ==
    /\ Len(viewer.images) >= 3
    /\ viewer.event = "Right"
    /\ viewer.idx_before = Len(viewer.images) - 1
    /\ viewer.idx = 0
    /\ viewer.shown = viewer.images[1]

\* frames of the chunks of a file
RECURSIVE FramesOf(_)
FramesOf(w) == IF w = <<>> THEN 0 ELSE Head(w).len + FramesOf(Tail(w))

\* the chunks of the file are the first chunks the callback enqueued, in
\* the order it enqueued them
InEnqueueOrder(w) == \A i \in 1..Len(w) : w[i].id = i

\* C35: in fixed-duration mode, when the write loop has ended the file
\* holds the chunks in the order the callback enqueued them, none lost or
\* written twice, and the number of frames written equals
\* int(duration * samplerate)
FixedDurationWritesExactly ==
    (recorder.pc = "done" /\ recorder.duration # NoDuration) =>
        /\ InEnqueueOrder(recorder.wav)
        /\ recorder.frames_written = FramesOf(recorder.wav)
        /\ FramesOf(recorder.wav) = recorder.frames_to_write

\* C36: in press-Enter mode, when the write loop has ended after Enter,
\* every chunk the callback enqueued before the stop is in the file: no
\* enqueued chunk is dropped
EnterModeWritesAllBeforeStop ==
    (recorder.pc = "done" /\ recorder.duration = NoDuration) =>
        /\ InEnqueueOrder(recorder.wav)
        /\ Len(recorder.wav) >= recorder.enq_at_stop

=============================================================================
